---- MODULE Spec2Model ----
(***************************************************************************)
(* Story services of talk (coral): src/core/server/services/stories.       *)
(* The document store holds story records, comments and comment actions.   *)
(* Every await of a service function is one atomic store operation; a      *)
(* service call is a process whose program counter names the store         *)
(* operation it issues next, so that other requests interleave between     *)
(* its steps exactly where the code awaits.                                *)
(***************************************************************************)
EXTENDS Integers, Sequences, FiniteSets, TLC

(***************************************************************************)
(* Bounds of the model.                                                    *)
(***************************************************************************)
\* comments plus actions written by the comment/action writers in one behaviour
MaxWrites == 2
\* longest source list handed to merge
MaxSources == 2
\* update, updateSettings and updateStoryMode calls made in one behaviour
MaxUpdates == 2
\* latest instant, in milliseconds, handed to isLiveEnabled as now
MaxNow == 3
\* longest disable_live_updates_timeout, in milliseconds
MaxTimeout == 2
\* largest count in a count structure handed to the count merge functions
MaxCount == 1
\* runs of the tenant middleware on one request
MaxRuns == 2

StoryIDs == {"s1", "s2", "s3"}
Sites == {"siteA", "siteB"}

\* the absent value: null, undefined, a record that is not in the store
Null == [null |-> TRUE]

(***************************************************************************)
(* Comment counts (models/comment/counts/empty.ts).                        *)
(***************************************************************************)
StatusKeys == {"APPROVED", "NONE", "PREMOD", "REJECTED", "SYSTEM_WITHHELD"}
QueueKeys == {"unmoderated", "reported", "pending"}
ActionKeys == {"REACTION", "FLAG"}

createEmptyCommentModerationCountsPerQueue ==
    [unmoderated |-> 0, reported |-> 0, pending |-> 0]

createEmptyCommentModerationQueueCounts ==
    [total |-> 0, queues |-> createEmptyCommentModerationCountsPerQueue]

createEmptyCommentStatusCounts ==
    [APPROVED |-> 0, NONE |-> 0, PREMOD |-> 0, REJECTED |-> 0,
     SYSTEM_WITHHELD |-> 0]

\* action: {} is the map with no keys
createEmptyRelatedCommentCounts ==
    [action |-> [k \in {} |-> 0],
     status |-> createEmptyCommentStatusCounts,
     moderationQueue |-> createEmptyCommentModerationQueueCounts]

\* a key missing from a count map reads as zero
CountAt(c, k) == IF k \in DOMAIN c THEN c[k] ELSE 0

\* mergeCommentStatusCount(...statusCounts): coordinate-wise sum, from the
\* empty structure, over the inputs in order
RECURSIVE mergeCommentStatusCountFrom(_, _)
mergeCommentStatusCountFrom(acc, cs) ==
    IF cs = <<>> THEN acc
    ELSE mergeCommentStatusCountFrom(
             [k \in StatusKeys |-> acc[k] + CountAt(Head(cs), k)], Tail(cs))

mergeCommentStatusCount(cs) ==
    mergeCommentStatusCountFrom(createEmptyCommentStatusCounts, cs)

\* mergeCommentModerationQueueCount(...queueCounts)
RECURSIVE mergeCommentModerationQueueCountFrom(_, _)
mergeCommentModerationQueueCountFrom(acc, cs) ==
    IF cs = <<>> THEN acc
    ELSE mergeCommentModerationQueueCountFrom(
             [total |-> acc.total + Head(cs).total,
              queues |-> [q \in QueueKeys |->
                             acc.queues[q] + CountAt(Head(cs).queues, q)]],
             Tail(cs))

mergeCommentModerationQueueCount(cs) ==
    mergeCommentModerationQueueCountFrom(
        createEmptyCommentModerationQueueCounts, cs)

\* mergeCommentActionCounts(...actionCounts): sum over the union of the keys
RECURSIVE mergeCommentActionCountsFrom(_, _)
mergeCommentActionCountsFrom(acc, cs) ==
    IF cs = <<>> THEN acc
    ELSE mergeCommentActionCountsFrom(
             [k \in DOMAIN acc \cup DOMAIN Head(cs) |->
                 CountAt(acc, k) + CountAt(Head(cs), k)],
             Tail(cs))

mergeCommentActionCounts(cs) ==
    mergeCommentActionCountsFrom([k \in {} |-> 0], cs)

\* calculateTotalCommentCount(statusCounts): the sum of the status counts
calculateTotalCommentCount(status) ==
    status.APPROVED + status.NONE + status.PREMOD + status.REJECTED
        + status.SYSTEM_WITHHELD

(***************************************************************************)
(* State.                                                                  *)
(***************************************************************************)
VARIABLES
    \* the document store
    stories,        \* story id -> story record, or Null
    comments,       \* comment number -> the comment's storyID, Removed once deleted
    actions,        \* action number -> the action's storyID, Removed once deleted
    tenant,         \* the tenant every request of the behaviour is resolved to
    \* merge(mongo, tenant, destinationID, sourceIDs)
    mergePc,        \* the store operation merge issues next
    destinationID,
    sourceIDs,
    mergeStories,   \* const stories: the result of retrieveManyStories
    destinationStory,
    mergeLog,       \* what merge has logged: the affected-row counts and warnings
    mergeResult,    \* how the call ended
    \* remove(mongo, tenant, storyID, includeComments)
    removePc,       \* the store operation remove issues next
    removeID,       \* storyID
    includeComments,
    removeFound,    \* const story: the result of retrieveStory
    removeLog,      \* what remove has logged
    removeResult,   \* how the call ended
    \* findOrCreate(mongo, tenant, broker, input, scraper), one call per caller
    focPc,          \* caller -> the operation the call issues next
    focInput,       \* caller -> input: id, url, mode
    focSiteID,      \* caller -> let siteID
    focStory,       \* caller -> story, as findOrCreateStory answered
    wasUpserted,    \* caller -> wasUpserted, as findOrCreateStory answered
    focResult,      \* caller -> how the call ended
    \* create(mongo, tenant, broker, config, storyID, storyURL, input)
    createPc,
    createArgs,     \* storyID, storyURL, mode, metadata
    createSite,     \* const site
    createdStory,   \* let story
    createResult,
    \* update, updateSettings, updateStoryMode: one call at a time
    updPc,          \* the operation the call issues next
    updCall,        \* the call: op, storyID and the url and mode of its input
    updResult,      \* how the last call ended
    updBefore,      \* the story records when the call was made
    updates,        \* the calls made so far
    \* isLiveEnabled(config, tenant, source, now)
    liveInput,      \* the arguments
    liveResult,     \* what the call resolved to
    \* the count merge functions
    countArgs,      \* the count structures handed to them
    countResult,    \* what they returned
    \* tenantMiddleware({cache, passNoTenant})(req, res, next) on one request
    reqTalk,        \* req.talk, Null while the request has none
    resLocals,      \* res.locals
    resHeaders,     \* the headers set on the response
    nextCalls,      \* the calls of next: the run that made it and its argument
    mwPc,           \* where the handler is
    passNoTenant,   \* the option of the middleware that is running
    mwRuns,         \* the runs of the middleware on the request so far
    uuids,          \* the ids uuid() has generated
    clock,          \* the time, new Date()
    talkBefore,     \* req.talk when the run began
    localsBefore,   \* res.locals when the run began
    resolved,       \* what the cache answered to the run
    \* the collaborators of the story services
    events,         \* the StoryCreated events handed to the broker
    errorLog,       \* logger.error calls
    scraperQueue,   \* the tasks added to the scraper queue
    scrapes,        \* the stories scraped synchronously
    \* history of the behaviour, read by the properties only
    repoCalls,      \* the service calls that have called the story repository
    removeOps,      \* the deletions remove has issued, in order
    initStories,    \* the story records the behaviour started from
    written,        \* story id -> the counts the writers have incremented into it
    commentOrigin,  \* comment number -> the story the comment was written to
    actionOrigin,   \* action number -> the story the action was written to
    fetchWritten,   \* written, when merge read the stories
    mergeDeleted,   \* the story records merge's removeStories deleted
    interfered,     \* a writer changed the store after the service call began
    lateWrite       \* a comment (action) was written to a source after merge
                    \* reassigned the comments (actions)

storeVars == <<stories, comments, actions>>
mergeVars == <<mergePc, destinationID, sourceIDs, mergeStories,
               destinationStory, mergeLog, mergeResult>>
removeVars == <<removePc, removeID, includeComments, removeFound, removeLog,
                removeResult, removeOps>>
histVars == <<initStories, written, commentOrigin, actionOrigin, fetchWritten,
              mergeDeleted, interfered, lateWrite>>
focVars == <<focPc, focInput, focSiteID, focStory, wasUpserted, focResult>>
createVars == <<createPc, createArgs, createSite, createdStory, createResult>>
brokerVars == <<events, errorLog, scraperQueue, scrapes, repoCalls>>
updateVars == <<updPc, updCall, updResult, updBefore, updates>>
\* the arguments and results of the functions that touch no store
valueVars == <<liveInput, liveResult, countArgs, countResult>>
requestVars == <<reqTalk, resLocals, resHeaders, nextCalls, mwPc, passNoTenant,
                 mwRuns, uuids, clock, talkBefore, localsBefore, resolved>>
\* what the merge, remove and writer steps leave alone besides the store
otherVars == <<tenant, focVars, createVars, brokerVars, updateVars, valueVars,
               requestVars>>
vars == <<storeVars, tenant, mergeVars, removeVars, histVars, focVars,
          createVars, brokerVars, updateVars, valueVars, requestVars>>

(***************************************************************************)
(* Stories, sites and tenants.                                             *)
(***************************************************************************)
\* settings.mode of a story whose mode was never set
NoMode == "(unset)"
\* the storyID slot of a comment or action that was removed
Removed == "(removed)"

Hosts == {"a.example", "b.example", "x.example"}
EmptyURL == [host |-> "", path |-> ""]

\* findSiteByURL(mongo, tenant.id, url): the site one of whose allowed origins
\* is the URL's; no site is registered for x.example
findSiteByURL(url) ==
    CASE url.host = "a.example" -> [id |-> "siteA"]
      [] url.host = "b.example" -> [id |-> "siteB"]
      [] OTHER -> Null

HostOf(site) == IF site = "siteA" THEN "a.example" ELSE "b.example"

\* a story record as createStory / findOrCreateStory first write it
NewStory(id, url, siteID, mode, metadata, scrapedAt) ==
    [id |-> id, url |-> url, siteID |-> siteID, settings |-> [mode |-> mode],
     commentCounts |-> createEmptyRelatedCommentCounts,
     metadata |-> metadata, scrapedAt |-> scrapedAt]

hasFeatureFlag(t, flag) == flag \in t.featureFlags

\* the fields of a tenant that the story services read
Tenant(flags, scraping) ==
    [id |-> "tenant", domain |-> "tenant.example", featureFlags |-> flags,
     stories |-> [scraping |-> [enabled |-> scraping]]]

\* resolveStoryMode(settings, tenant): the story's own mode when it is set,
\* else the tenant's default
resolveStoryMode(settings, t) ==
    IF settings.mode # NoMode THEN settings.mode
    ELSE IF hasFeatureFlag(t, "DEFAULT_QA_STORY_MODE") THEN "QA"
    ELSE "COMMENTS"

Range(seq) == {seq[i] : i \in DOMAIN seq}

\* lodash uniq(array).length
UniqLength(seq) == Cardinality(Range(seq))

(***************************************************************************)
(* Comment and action writers: the requests that create comments and       *)
(* reactions while the service calls below are running.  A writer finds    *)
(* the story, inserts its document with the story's id and increments the  *)
(* story's counts.                                                         *)
(***************************************************************************)
WriteStatuses == {"NONE"}
WriteActionKeys == {"REACTION"}

\* the moderation queue a new comment of this status enters
QueueOf(status) ==
    CASE status = "NONE" -> "unmoderated"
      [] status = "PREMOD" -> "pending"
      [] status = "SYSTEM_WITHHELD" -> "pending"
      [] OTHER -> ""

IncrementStatus(counts, status) ==
    [counts EXCEPT
        !.status[status] = @ + 1,
        !.moderationQueue =
            IF QueueOf(status) = "" THEN @
            ELSE [total |-> @.total + 1,
                  queues |-> [@.queues EXCEPT ![QueueOf(status)] = @ + 1]]]

IncrementAction(counts, key) ==
    [counts EXCEPT
        !.action = [k \in DOMAIN @ \cup {key} |->
                       CountAt(@, k) + (IF k = key THEN 1 ELSE 0)]]

\* the service call of the behaviour has been made
CallBegun == mergePc # "idle" \/ removePc # "idle"

WritesLeft == Len(comments) + Len(actions) < MaxWrites

WriteComment(s, status) ==
    /\ WritesLeft
    /\ stories[s] # Null
    /\ comments' = Append(comments, s)
    /\ stories' = [stories EXCEPT
                      ![s].commentCounts = IncrementStatus(@, status)]
    /\ written' = [written EXCEPT ![s] = IncrementStatus(@, status)]
    /\ interfered' = (interfered \/ CallBegun)
    /\ lateWrite' = (lateWrite \/ (/\ mergePc \in {"actions", "counts", "remove"}
                                   /\ s \in Range(sourceIDs)))
    /\ commentOrigin' = Append(commentOrigin, s)
    /\ UNCHANGED <<actions, otherVars, mergeVars, removeVars, initStories,
                   actionOrigin, fetchWritten, mergeDeleted>>

WriteAction(s, key) ==
    /\ WritesLeft
    /\ stories[s] # Null
    /\ actions' = Append(actions, s)
    /\ stories' = [stories EXCEPT
                      ![s].commentCounts = IncrementAction(@, key)]
    /\ written' = [written EXCEPT ![s] = IncrementAction(@, key)]
    /\ interfered' = (interfered \/ CallBegun)
    /\ lateWrite' = (lateWrite \/ (/\ mergePc \in {"counts", "remove"}
                                   /\ s \in Range(sourceIDs)))
    /\ actionOrigin' = Append(actionOrigin, s)
    /\ UNCHANGED <<comments, otherVars, mergeVars, removeVars, initStories,
                   commentOrigin, fetchWritten, mergeDeleted>>

(***************************************************************************)
(* Store operations of the story, comment and action models that merge     *)
(* and remove call.                                                        *)
(***************************************************************************)
\* retrieveManyStories(mongo, tenantID, ids): one entry per id, in the order
\* of the ids, null for an id with no record
retrieveManyStories(ids) == [i \in DOMAIN ids |-> stories[ids[i]]]

\* isNonNullArray(array)
isNonNullArray(array) == \A i \in DOMAIN array : array[i] # Null

\* mergeManyCommentStories / mergeManyStoryActions: updateMany of the
\* documents whose storyID is one of the sources, setting it to the destination
Reassign(docs, destID, srcIDs) ==
    [i \in DOMAIN docs |->
        IF docs[i] \in Range(srcIDs) THEN destID ELSE docs[i]]

ModifiedCount(docs, srcIDs) ==
    Cardinality({i \in DOMAIN docs : docs[i] \in Range(srcIDs)})

\* updateStoryCounts(mongo, tenantID, id, commentCounts): findOneAndUpdate
\* that sets the counts; the updated record, or null when there is none
updateStoryCounts(id, commentCounts) ==
    IF stories[id] = Null THEN stories
    ELSE [stories EXCEPT ![id].commentCounts = commentCounts]

\* removeStories(mongo, tenantID, ids): deleteMany of the records with these ids
removeStories(ids) ==
    [s \in StoryIDs |-> IF s \in Range(ids) THEN Null ELSE stories[s]]

\* removeStoryActions / removeStoryComments: deleteMany by storyID
RemoveDocs(docs, storyID) ==
    [i \in DOMAIN docs |-> IF docs[i] = storyID THEN Removed ELSE docs[i]]

(***************************************************************************)
(* merge (services/stories/index.ts, 325-429).                             *)
(***************************************************************************)
Returned(value) == [kind |-> "return", value |-> value]
Thrown(message) == [kind |-> "throw", value |-> [message |-> message]]
Pending == [kind |-> "pending", value |-> Null]

EmptyLog == [warn |-> "", updatedComments |-> -1, updatedActions |-> -1,
             deletedStories |-> -1]

\* source lists of up to MaxSources ids, repeats included
SourceLists == UNION {[1..n -> StoryIDs] : n \in 0..MaxSources}

\* a slip that forgets the destination: uniq(sourceIDs) alone is checked
DuplicateAmongSources(d, srcs) == UniqLength(srcs) # Len(srcs)

\* lines 339-341: storyIDs = [destinationID, ...sourceIDs] holds an id twice
DuplicateStoryIDs(d, srcs) ==
    UniqLength(<<d>> \o srcs) # Len(<<d>> \o srcs)

\* a slip that raises an error for the empty list, as for the other checks
EmptySourcesThrown == Thrown("cannot merge from 0 stories")

\* lines 334-337: what merge answers to an empty source list
EmptySourcesOutcome == Returned(Null)

\* lines 325-343: the checks made before the first await
MergeCall(d, srcs) ==
    /\ mergePc = "idle"
    /\ destinationID' = d
    /\ sourceIDs' = srcs
    /\ IF Len(srcs) = 0
       THEN /\ mergeLog' = [mergeLog EXCEPT !.warn = "cannot merge from 0 stories"]
            /\ mergeResult' = EmptySourcesOutcome
            /\ mergePc' = "done"
       ELSE IF DuplicateStoryIDs(d, srcs)
       THEN /\ mergeResult' = Thrown("cannot merge from/to the same story ID")
            /\ mergePc' = "done"
            /\ UNCHANGED mergeLog
       ELSE /\ mergePc' = "retrieve"
            /\ UNCHANGED <<mergeLog, mergeResult>>
    /\ UNCHANGED <<storeVars, otherVars, mergeStories, destinationStory,
                   removeVars, histVars>>

\* a slip that issues the comment reassignment before the checks are made
MergeRetrieveAfterReassign ==
    /\ mergePc = "retrieve"
    /\ LET found == retrieveManyStories(<<destinationID>> \o sourceIDs) IN
       /\ mergeStories' = found
       /\ IF ~isNonNullArray(found)
          THEN /\ mergeResult' = Thrown("cannot find all the stories")
               /\ mergePc' = "done"
          ELSE IF UniqLength([i \in DOMAIN found |-> found[i].siteID]) > 1
          THEN /\ mergeResult' = Thrown("cannot merge stories on different sites")
               /\ mergePc' = "done"
          ELSE IF \E i \in DOMAIN found :
                      resolveStoryMode(found[i].settings, tenant) # "COMMENTS"
          THEN /\ mergeResult' = Thrown("cannot merge stories not in comments mode")
               /\ mergePc' = "done"
          ELSE /\ mergePc' = "comments"
               /\ UNCHANGED mergeResult
    /\ fetchWritten' = written
    /\ comments' = Reassign(comments, destinationID, sourceIDs)
    /\ UNCHANGED <<stories, actions, otherVars, destinationID, sourceIDs,
                   destinationStory, mergeLog, removeVars, initStories, written,
                   commentOrigin, actionOrigin, mergeDeleted, interfered,
                   lateWrite>>

\* a slip that checks the modes before the sites
MergeRetrieveModeFirst ==
    /\ mergePc = "retrieve"
    /\ LET found == retrieveManyStories(<<destinationID>> \o sourceIDs) IN
       /\ mergeStories' = found
       /\ IF ~isNonNullArray(found)
          THEN /\ mergeResult' = Thrown("cannot find all the stories")
               /\ mergePc' = "done"
          ELSE IF \E i \in DOMAIN found :
                      resolveStoryMode(found[i].settings, tenant) # "COMMENTS"
          THEN /\ mergeResult' = Thrown("cannot merge stories not in comments mode")
               /\ mergePc' = "done"
          ELSE IF UniqLength([i \in DOMAIN found |-> found[i].siteID]) > 1
          THEN /\ mergeResult' = Thrown("cannot merge stories on different sites")
               /\ mergePc' = "done"
          ELSE /\ mergePc' = "comments"
               /\ UNCHANGED mergeResult
    /\ fetchWritten' = written
    /\ UNCHANGED <<storeVars, otherVars, destinationID, sourceIDs,
                   destinationStory, mergeLog, removeVars, initStories, written,
                   commentOrigin, actionOrigin, mergeDeleted, interfered,
                   lateWrite>>

\* lines 345-365: the stories are read in one batch and checked
MergeRetrieve ==
    /\ mergePc = "retrieve"
    /\ LET found == retrieveManyStories(<<destinationID>> \o sourceIDs) IN
       /\ mergeStories' = found
       /\ IF ~isNonNullArray(found)
          THEN /\ mergeResult' = Thrown("cannot find all the stories")
               /\ mergePc' = "done"
          ELSE IF UniqLength([i \in DOMAIN found |-> found[i].siteID]) > 1
          THEN /\ mergeResult' = Thrown("cannot merge stories on different sites")
               /\ mergePc' = "done"
          ELSE IF \E i \in DOMAIN found :
                      resolveStoryMode(found[i].settings, tenant) # "COMMENTS"
          THEN /\ mergeResult' = Thrown("cannot merge stories not in comments mode")
               /\ mergePc' = "done"
          ELSE /\ mergePc' = "comments"
               /\ UNCHANGED mergeResult
    /\ fetchWritten' = written
    /\ UNCHANGED <<storeVars, otherVars, destinationID, sourceIDs,
                   destinationStory, mergeLog, removeVars, initStories, written,
                   commentOrigin, actionOrigin, mergeDeleted, interfered,
                   lateWrite>>

\* lines 367-376: the comments of the sources move to the destination
MergeComments ==
    /\ mergePc = "comments"
    /\ comments' = Reassign(comments, destinationID, sourceIDs)
    /\ mergeLog' = [mergeLog EXCEPT
                       !.updatedComments = ModifiedCount(comments, sourceIDs)]
    /\ mergePc' = "actions"
    /\ UNCHANGED <<stories, actions, otherVars, destinationID, sourceIDs,
                   mergeStories, destinationStory, mergeResult, removeVars,
                   histVars>>

\* a slip that leaves the actions where they are
MergeActionsSkipped ==
    /\ mergePc = "actions"
    /\ mergeLog' = [mergeLog EXCEPT !.updatedActions = 0]
    /\ mergePc' = "counts"
    /\ UNCHANGED <<storeVars, otherVars, destinationID, sourceIDs,
                   mergeStories, destinationStory, mergeResult, removeVars,
                   histVars>>

\* lines 378-387: the actions of the sources move to the destination
MergeActions ==
    /\ mergePc = "actions"
    /\ actions' = Reassign(actions, destinationID, sourceIDs)
    /\ mergeLog' = [mergeLog EXCEPT
                       !.updatedActions = ModifiedCount(actions, sourceIDs)]
    /\ mergePc' = "counts"
    /\ UNCHANGED <<stories, comments, otherVars, destinationID, sourceIDs,
                   mergeStories, destinationStory, mergeResult, removeVars,
                   histVars>>

\* a slip that assigns the action counts of each story over those of the
\* stories before it
CountsOfStoriesAssigned(sourceStories) ==
    [status |-> mergeCommentStatusCount(
                    [i \in DOMAIN sourceStories |->
                        sourceStories[i].commentCounts.status]),
     moderationQueue |-> mergeCommentModerationQueueCount(
                    [i \in DOMAIN sourceStories |->
                        sourceStories[i].commentCounts.moderationQueue]),
     action |-> IF sourceStories = <<>> THEN [k \in {} |-> 0]
                ELSE sourceStories[Len(sourceStories)].commentCounts.action]

\* lines 392-403: the comment counts computed from the source stories
CountsOfStories(sourceStories) ==
    [status |-> mergeCommentStatusCount(
                    [i \in DOMAIN sourceStories |->
                        sourceStories[i].commentCounts.status]),
     moderationQueue |-> mergeCommentModerationQueueCount(
                    [i \in DOMAIN sourceStories |->
                        sourceStories[i].commentCounts.moderationQueue]),
     action |-> mergeCommentActionCounts(
                    [i \in DOMAIN sourceStories |->
                        sourceStories[i].commentCounts.action])]

\* a slip that sums the destination's own counts in
MergedCountsWithDestination(found) == CountsOfStories(found)

\* a slip that reads the source stories again when the counts are computed
MergedCountsReread(found) ==
    CountsOfStories(Tail(retrieveManyStories(<<destinationID>> \o sourceIDs)))

\* lines 389-403: const [, ...sourceStories] = stories, and the counts
\* merged from the source stories as they were read
MergedCounts(found) == CountsOfStories(Tail(found))

\* a slip that goes on to delete the sources when the destination is gone
MergeCountsNoAbort ==
    /\ mergePc = "counts"
    /\ stories' = updateStoryCounts(destinationID, MergedCounts(mergeStories))
    /\ destinationStory' = stories'[destinationID]
    /\ mergePc' = "remove"
    /\ mergeLog' = IF destinationStory' = Null
                   THEN [mergeLog EXCEPT !.warn =
                      "destination story cannot be updated with new comment counts"]
                   ELSE mergeLog
    /\ UNCHANGED <<comments, actions, otherVars, destinationID, sourceIDs,
                   mergeStories, mergeResult, removeVars, histVars>>

\* lines 389-420: the merged counts replace the destination's
MergeCounts ==
    /\ mergePc = "counts"
    /\ stories' = updateStoryCounts(destinationID, MergedCounts(mergeStories))
    /\ destinationStory' = stories'[destinationID]
    /\ IF destinationStory' = Null
       THEN /\ mergeLog' = [mergeLog EXCEPT !.warn =
                   "destination story cannot be updated with new comment counts"]
            /\ mergeResult' = Returned(Null)
            /\ mergePc' = "done"
       ELSE /\ mergePc' = "remove"
            /\ UNCHANGED <<mergeLog, mergeResult>>
    /\ UNCHANGED <<comments, actions, otherVars, destinationID, sourceIDs,
                   mergeStories, removeVars, histVars>>

\* a slip that answers with the number of records deleted beside the story
MergeRemoveReturnsCount ==
    /\ mergePc = "remove"
    /\ stories' = removeStories(sourceIDs)
    /\ mergeDeleted' = {s \in Range(sourceIDs) : stories[s] # Null}
    /\ mergeLog' = [mergeLog EXCEPT
                       !.deletedStories = Cardinality(mergeDeleted')]
    /\ mergeResult' = Returned([story |-> destinationStory,
                                deletedCount |-> Cardinality(mergeDeleted')])
    /\ mergePc' = "done"
    /\ UNCHANGED <<comments, actions, otherVars, destinationID, sourceIDs,
                   mergeStories, destinationStory, removeVars, initStories, written,
                   commentOrigin, actionOrigin, fetchWritten, interfered,
                   lateWrite>>

\* lines 422-428: the source records are deleted and the destination returned
MergeRemove ==
    /\ mergePc = "remove"
    /\ stories' = removeStories(sourceIDs)
    /\ mergeDeleted' = {s \in Range(sourceIDs) : stories[s] # Null}
    /\ mergeLog' = [mergeLog EXCEPT
                       !.deletedStories = Cardinality(mergeDeleted')]
    /\ mergeResult' = Returned(destinationStory)
    /\ mergePc' = "done"
    /\ UNCHANGED <<comments, actions, otherVars, destinationID, sourceIDs,
                   mergeStories, destinationStory, removeVars, initStories, written,
                   commentOrigin, actionOrigin, fetchWritten, interfered,
                   lateWrite>>

(***************************************************************************)
(* remove (services/stories/index.ts, 133-195).                            *)
(***************************************************************************)
EmptyRemoveLog == [warn |-> "", removedActions |-> -1, removedComments |-> -1]

\* retrieveStory(mongo, tenantID, id): the record, or null
retrieveStory(id) == stories[id]

\* a slip that looks at the approved comments only
HasApprovedComments(story) == story.commentCounts.status.APPROVED > 0

\* line 176: the story has linked comments
HasLinkedComments(story) ==
    calculateTotalCommentCount(story.commentCounts.status) > 0

\* lines 133-148: the call, up to its first await
RemoveCall(id, include) ==
    /\ removePc = "idle"
    /\ removeID' = id
    /\ includeComments' = include
    /\ removePc' = "retrieve"
    /\ UNCHANGED <<storeVars, otherVars, mergeVars, removeFound, removeLog,
                   removeResult, removeOps, histVars>>

\* a slip that deletes the story record without the cascade
RemoveRetrieveNoCascade ==
    /\ removePc = "retrieve"
    /\ removeFound' = retrieveStory(removeID)
    /\ IF removeFound' = Null
       THEN /\ removeLog' = [removeLog EXCEPT !.warn =
                   "attempted to remove story that wasn't found"]
            /\ removeResult' = Returned(Null)
            /\ removePc' = "done"
       ELSE IF ~includeComments /\ HasLinkedComments(removeFound')
       THEN /\ removeLog' = [removeLog EXCEPT !.warn =
                   "attempted to remove story that has linked comments without consent for deleting comments"]
            /\ removeResult' = Thrown("asset has comments, cannot remove")
            /\ removePc' = "done"
       ELSE /\ removePc' = "story"
            /\ UNCHANGED <<removeLog, removeResult>>
    /\ UNCHANGED <<storeVars, otherVars, mergeVars, removeID, includeComments,
                   removeOps, histVars>>

\* lines 150-183: the story is read; a missing story ends the call, linked
\* comments without consent are refused
RemoveRetrieve ==
    /\ removePc = "retrieve"
    /\ removeFound' = retrieveStory(removeID)
    /\ IF removeFound' = Null
       THEN /\ removeLog' = [removeLog EXCEPT !.warn =
                   "attempted to remove story that wasn't found"]
            /\ removeResult' = Returned(Null)
            /\ removePc' = "done"
       ELSE IF includeComments
       THEN /\ removePc' = "actions"
            /\ UNCHANGED <<removeLog, removeResult>>
       ELSE IF HasLinkedComments(removeFound')
       THEN /\ removeLog' = [removeLog EXCEPT !.warn =
                   "attempted to remove story that has linked comments without consent for deleting comments"]
            /\ removeResult' = Thrown("asset has comments, cannot remove")
            /\ removePc' = "done"
       ELSE /\ removePc' = "story"
            /\ UNCHANGED <<removeLog, removeResult>>
    /\ UNCHANGED <<storeVars, otherVars, mergeVars, removeID, includeComments,
                   removeOps, histVars>>

\* lines 159-166: the actions of the story are deleted
RemoveActions ==
    /\ removePc = "actions"
    /\ actions' = RemoveDocs(actions, removeFound.id)
    /\ removeLog' = [removeLog EXCEPT !.removedActions =
           Cardinality({i \in DOMAIN actions : actions[i] = removeFound.id})]
    /\ removeOps' = Append(removeOps, "removeStoryActions")
    /\ removePc' = "comments"
    /\ UNCHANGED <<stories, comments, otherVars, mergeVars, removeID,
                   includeComments, removeFound, removeResult, histVars>>

\* lines 168-175: the comments of the story are deleted
RemoveComments ==
    /\ removePc = "comments"
    /\ comments' = RemoveDocs(comments, removeFound.id)
    /\ removeLog' = [removeLog EXCEPT !.removedComments =
           Cardinality({i \in DOMAIN comments : comments[i] = removeFound.id})]
    /\ removeOps' = Append(removeOps, "removeStoryComments")
    /\ removePc' = "story"
    /\ UNCHANGED <<stories, actions, otherVars, mergeVars, removeID,
                   includeComments, removeFound, removeResult, histVars>>

\* lines 185-194: removeStory deletes the record and answers with it, or with
\* null when it was already gone
RemoveStory ==
    /\ removePc = "story"
    /\ stories' = [stories EXCEPT ![removeFound.id] = Null]
    /\ removeOps' = Append(removeOps, "removeStory")
    /\ removeResult' = Returned(stories[removeFound.id])
    /\ removePc' = "done"
    /\ UNCHANGED <<comments, actions, otherVars, mergeVars, removeID,
                   includeComments, removeFound, removeLog, histVars>>

(***************************************************************************)
(* findOrCreate (services/stories/index.ts, 72-131).                       *)
(***************************************************************************)
Callers == {"p1", "p2"}
NoID == ""
\* the modes a caller may ask for; QA and RATINGS_AND_REVIEWS need a flag
InputModes == {NoMode, "QA", "RATINGS_AND_REVIEWS"}

\* what the steps of findOrCreate and create leave alone
nonCallerVars == <<comments, actions, tenant, mergeVars, removeVars, histVars,
                   updateVars, valueVars, requestVars>>

\* ensureFeatureFlag(tenant, flag) throws when the tenant lacks the flag
ensureFeatureFlagThrows(t, flag) == ~hasFeatureFlag(t, flag)

\* a slip that gates QA only
validateStoryModeQAOnly(t, mode) ==
    IF mode = "QA" THEN ensureFeatureFlagThrows(t, "ENABLE_QA") ELSE FALSE

\* lines 282-288: validateStoryMode(tenant, mode) throws
validateStoryModeThrows(t, mode) ==
    IF mode = "QA" THEN ensureFeatureFlagThrows(t, "ENABLE_QA")
    ELSE IF mode = "RATINGS_AND_REVIEWS"
    THEN ensureFeatureFlagThrows(t, "ENABLE_RATINGS_AND_REVIEWS")
    ELSE FALSE

\* the record with this URL, if there is one
StoryWithURL(url) ==
    IF \E s \in StoryIDs : stories[s] # Null /\ stories[s].url = url
    THEN stories[CHOOSE s \in StoryIDs : stories[s] # Null /\ stories[s].url = url]
    ELSE Null

\* the ids uuid() may still give to a new record
FreshIDs == {s \in {"s1", "s2"} : stories[s] = Null}

\* the inputs of findOrCreate: a URL to find or create the story of, or the
\* id of a story to look up
FindOrCreateInputs ==
    {[id |-> NoID, url |-> [host |-> h, path |-> "1"], mode |-> m] :
        h \in Hosts, m \in InputModes}
    \cup {[id |-> "s3", url |-> EmptyURL, mode |-> NoMode]}

\* a slip that resolves the site only after the repository call: the call
\* goes on without a site
SiteMissingIgnored(site) == FALSE

\* lines 90-95: the URL is not associated with a site
SiteMissing(site) == site = Null

\* lines 80-97: the mode is validated and the URL resolved to its site (the
\* registered sites do not change, so the lookup is part of the step)
FindOrCreateCall(p, input) ==
    /\ focPc[p] = "idle"
    /\ focInput' = [focInput EXCEPT ![p] = input]
    /\ IF input.mode # NoMode /\ validateStoryModeThrows(tenant, input.mode)
       THEN /\ focResult' = [focResult EXCEPT ![p] = Thrown("FeatureFlagRequired")]
            /\ focPc' = [focPc EXCEPT ![p] = "done"]
            /\ UNCHANGED focSiteID
       ELSE IF input.url # EmptyURL /\ SiteMissing(findSiteByURL(input.url))
       THEN /\ focResult' = [focResult EXCEPT ![p] = Thrown("StoryURLInvalidError")]
            /\ focPc' = [focPc EXCEPT ![p] = "done"]
            /\ UNCHANGED focSiteID
       ELSE /\ focSiteID' = [focSiteID EXCEPT ![p] =
                   IF input.url # EmptyURL /\ findSiteByURL(input.url) # Null
                   THEN findSiteByURL(input.url).id ELSE ""]
            /\ focPc' = [focPc EXCEPT ![p] = "upsert"]
            /\ UNCHANGED focResult
    /\ UNCHANGED <<stories, nonCallerVars, focStory, wasUpserted, createVars,
                   brokerVars>>

\* lines 99-108: findOrCreateStory.  With an id and no URL it looks the story
\* up; with a URL it upserts on the URL in one atomic store operation: the
\* record with that URL, or a new record under a fresh id
FindOrCreateUpsert(p) ==
    /\ focPc[p] = "upsert"
    /\ repoCalls' = repoCalls \cup {p}
    /\ LET input == focInput[p] IN
       IF input.url = EmptyURL
       THEN /\ focStory' = [focStory EXCEPT ![p] = retrieveStory(input.id)]
            /\ wasUpserted' = [wasUpserted EXCEPT ![p] = FALSE]
            /\ UNCHANGED stories
       ELSE IF StoryWithURL(input.url) # Null
       THEN /\ focStory' = [focStory EXCEPT ![p] = StoryWithURL(input.url)]
            /\ wasUpserted' = [wasUpserted EXCEPT ![p] = FALSE]
            /\ UNCHANGED stories
       ELSE \E id \in FreshIDs :
            /\ stories' = [stories EXCEPT ![id] =
                   NewStory(id, input.url, focSiteID[p], input.mode, FALSE, FALSE)]
            /\ focStory' = [focStory EXCEPT ![p] = stories'[id]]
            /\ wasUpserted' = [wasUpserted EXCEPT ![p] = TRUE]
    /\ IF focStory'[p] = Null
       THEN /\ focResult' = [focResult EXCEPT ![p] = Returned(Null)]
            /\ focPc' = [focPc EXCEPT ![p] = "done"]
       ELSE /\ focPc' = [focPc EXCEPT ![p] = "publish"]
            /\ UNCHANGED focResult
    /\ UNCHANGED <<nonCallerVars, focInput, focSiteID, createVars, events,
                   errorLog, scraperQueue, scrapes>>

StoryCreated(story, siteID) ==
    [storyID |-> story.id, storyURL |-> story.url, siteID |-> siteID]

\* StoryCreatedCoralEvent.publish(broker, event).catch(logger.error): the
\* event is handed to the broker, and a rejected publish is logged
Publish(event, delivered) ==
    /\ events' = Append(events, event)
    /\ errorLog' = IF delivered THEN errorLog
                   ELSE Append(errorLog, "could not publish story created event")

\* a slip that publishes for every story found
ShouldPublishAlways(p) == TRUE

\* line 110: the story was created by this call
ShouldPublish(p) == wasUpserted[p]

\* a slip that awaits the publish without the catch: a rejected publish
\* rejects the call
FindOrCreateFinishAwaited(p) ==
    /\ focPc[p] = "publish"
    /\ IF ShouldPublish(p)
       THEN \E delivered \in BOOLEAN :
               /\ Publish(StoryCreated(focStory[p], focStory[p].siteID), delivered)
               /\ focResult' = [focResult EXCEPT ![p] =
                      IF delivered THEN Returned(focStory[p])
                      ELSE Thrown("could not publish story created event")]
       ELSE /\ focResult' = [focResult EXCEPT ![p] = Returned(focStory[p])]
            /\ UNCHANGED <<events, errorLog>>
    /\ focPc' = [focPc EXCEPT ![p] = "done"]
    /\ UNCHANGED <<stories, nonCallerVars, focInput, focSiteID, focStory,
                   wasUpserted, createVars, scraperQueue, scrapes, repoCalls>>

\* lines 110-130: the event of a new story is published, the scrape of a
\* story never scraped is queued, and the story returned
FindOrCreateFinish(p) ==
    /\ focPc[p] = "publish"
    /\ IF ShouldPublish(p)
       THEN \E delivered \in BOOLEAN :
               Publish(StoryCreated(focStory[p], focStory[p].siteID), delivered)
       ELSE UNCHANGED <<events, errorLog>>
    /\ scraperQueue' =
          IF /\ tenant.stories.scraping.enabled
             /\ ~focStory[p].metadata
             /\ ~focStory[p].scrapedAt
          THEN Append(scraperQueue,
                      [storyID |-> focStory[p].id, storyURL |-> focStory[p].url,
                       tenantID |-> tenant.id])
          ELSE scraperQueue
    /\ focResult' = [focResult EXCEPT ![p] = Returned(focStory[p])]
    /\ focPc' = [focPc EXCEPT ![p] = "done"]
    /\ UNCHANGED <<stories, nonCallerVars, focInput, focSiteID, focStory,
                   wasUpserted, createVars, scrapes, repoCalls>>

(***************************************************************************)
(* create (services/stories/index.ts, 199-258).                            *)
(***************************************************************************)
\* the arguments of create: the id and URL may be empty, the URL may be of
\* no registered site
CreateInputs ==
    {[storyID |-> id, storyURL |-> url, mode |-> m, metadata |-> md] :
        id \in {NoID, "s3"},
        url \in {EmptyURL} \cup {[host |-> h, path |-> "c"] : h \in {"a.example", "x.example"}},
        m \in InputModes,
        md \in BOOLEAN}

\* lines 209-226: the error of the first check that fails, "" when none does
CreateChecks(args) ==
    IF args.mode # NoMode /\ validateStoryModeThrows(tenant, args.mode)
    THEN "FeatureFlagRequired"
    ELSE IF args.storyID = NoID THEN "story id is required"
    ELSE IF args.storyURL = EmptyURL THEN "StoryURLInvalidError"
    ELSE IF findSiteByURL(args.storyURL) = Null THEN "StoryURLInvalidError"
    ELSE ""

\* lines 199-226: the checks, and the site of the URL
CreateCall(args) ==
    /\ createPc = "idle"
    /\ createArgs' = args
    /\ IF CreateChecks(args) # ""
       THEN /\ createResult' = Thrown(CreateChecks(args))
            /\ createPc' = "done"
            /\ UNCHANGED createSite
       ELSE /\ createSite' = findSiteByURL(args.storyURL)
            /\ createPc' = "create"
            /\ UNCHANGED createResult
    /\ UNCHANGED <<stories, nonCallerVars, focVars, createdStory, brokerVars>>

\* lines 228-242: createStory inserts the record; scrapedAt is set when the
\* metadata was given
CreateInsert ==
    /\ createPc = "create"
    /\ stories[createArgs.storyID] = Null
    /\ repoCalls' = repoCalls \cup {"create"}
    /\ stories' = [stories EXCEPT ![createArgs.storyID] =
           NewStory(createArgs.storyID, createArgs.storyURL, createSite.id,
                    createArgs.mode, createArgs.metadata, createArgs.metadata)]
    /\ createdStory' = stories'[createArgs.storyID]
    /\ createPc' = IF ~createArgs.metadata /\ tenant.stories.scraping.enabled
                   THEN "scrape" ELSE "publish"
    /\ UNCHANGED <<nonCallerVars, focVars, createArgs, createSite,
                   createResult, events, errorLog, scraperQueue, scrapes>>

\* lines 243-247: scrape(mongo, config, tenantID, storyID, storyURL) fetches
\* the page and answers with the story, its metadata and scrapedAt set
CreateScrape ==
    /\ createPc = "scrape"
    /\ stories[createdStory.id] # Null
    /\ scrapes' = scrapes \cup {createdStory.id}
    /\ stories' = [stories EXCEPT ![createdStory.id] =
                      [@ EXCEPT !.metadata = TRUE, !.scrapedAt = TRUE]]
    /\ createdStory' = stories'[createdStory.id]
    /\ createPc' = "publish"
    /\ UNCHANGED <<nonCallerVars, focVars, createArgs, createSite,
                   createResult, events, errorLog, scraperQueue, repoCalls>>

\* lines 249-257: the event is published and the story returned
CreateFinish ==
    /\ createPc = "publish"
    /\ \E delivered \in BOOLEAN :
          Publish(StoryCreated(createdStory, createSite.id), delivered)
    /\ createResult' = Returned(createdStory)
    /\ createPc' = "done"
    /\ UNCHANGED <<stories, nonCallerVars, focVars, createArgs, createSite,
                   createdStory, scraperQueue, scrapes, repoCalls>>

(***************************************************************************)
(* update, updateSettings, updateStoryMode (services/stories/index.ts,     *)
(* 262-305 and 459-469).                                                   *)
(***************************************************************************)
UpdateOps == {"update", "updateSettings", "updateStoryMode"}
AllModes == {"COMMENTS", "QA", "RATINGS_AND_REVIEWS"}

\* what the steps of the update calls leave alone
nonUpdateVars == <<comments, actions, tenant, mergeVars, removeVars, histVars,
                   focVars, createVars, brokerVars, valueVars, requestVars>>

\* the calls: update takes fields of the record, of which the url and the
\* mode may be given; updateSettings takes settings, of which the mode may be
\* given; updateStoryMode takes a mode
UpdateCalls(ids) ==
    {[op |-> "update", storyID |-> id, url |-> u, mode |-> m] :
        id \in ids,
        u \in {EmptyURL} \cup {[host |-> h, path |-> "2"] : h \in {"b.example", "x.example"}},
        m \in {NoMode} \cup AllModes}
    \cup {[op |-> "updateSettings", storyID |-> id, url |-> EmptyURL, mode |-> m] :
        id \in ids, m \in {NoMode} \cup AllModes}
    \cup {[op |-> "updateStoryMode", storyID |-> id, url |-> EmptyURL, mode |-> m] :
        id \in ids, m \in AllModes}

\* the error of the validation each operation does before it calls the
\* repository, "" when it passes: update (269-277) resolves the URL when one
\* is given, updateSettings (300-302) validates the mode when one is given,
\* updateStoryMode (466) validates the mode
UpdateChecks(call) ==
    IF call.op = "update"
    THEN IF call.url # EmptyURL /\ findSiteByURL(call.url) = Null
         THEN "StoryURLInvalidError" ELSE ""
    ELSE IF call.op = "updateSettings"
    THEN IF call.mode # NoMode /\ validateStoryModeThrows(tenant, call.mode)
         THEN "FeatureFlagRequired" ELSE ""
    ELSE IF validateStoryModeThrows(tenant, call.mode)
         THEN "FeatureFlagRequired" ELSE ""

\* updateStory / updateStorySettings / setStoryMode: the fields given are set
\* on the record
UpdatedStory(story, call) ==
    [story EXCEPT !.url = IF call.url # EmptyURL THEN call.url ELSE @,
                  !.settings.mode = IF call.mode # NoMode THEN call.mode ELSE @]

\* the call is made and its input validated
UpdateCall(call) ==
    /\ updPc = "idle"
    /\ updates < MaxUpdates
    /\ updates' = updates + 1
    /\ updCall' = call
    /\ updBefore' = stories
    /\ IF UpdateChecks(call) # ""
       THEN /\ updResult' = Thrown(UpdateChecks(call))
            /\ updPc' = "idle"
       ELSE /\ updResult' = Pending
            /\ updPc' = "store"
    /\ UNCHANGED <<stories, nonUpdateVars>>

\* lines 279, 304, 468: the repository updates the record and answers with
\* it, or with null when there is no such record
UpdateStore ==
    /\ updPc = "store"
    /\ repoCalls' = repoCalls \cup {updCall.op}
    /\ IF stories[updCall.storyID] = Null
       THEN /\ updResult' = Returned(Null)
            /\ UNCHANGED stories
       ELSE /\ stories' = [stories EXCEPT ![updCall.storyID] =
                              UpdatedStory(@, updCall)]
            /\ updResult' = Returned(stories'[updCall.storyID])
    /\ updPc' = "idle"
    /\ UNCHANGED <<comments, actions, tenant, mergeVars, removeVars, histVars,
                   focVars, createVars, events, errorLog, scraperQueue,
                   scrapes, updCall, updBefore, updates, valueVars,
                   requestVars>>

\* no findOrCreate, create or update call has been made
InitCallers ==
    /\ updPc = "idle"
    /\ updCall = Null
    /\ updResult = Pending
    /\ updBefore = Null
    /\ updates = 0
    /\ focPc = [p \in Callers |-> "idle"]
    /\ focInput = [p \in Callers |-> Null]
    /\ focSiteID = [p \in Callers |-> ""]
    /\ focStory = [p \in Callers |-> Null]
    /\ wasUpserted = [p \in Callers |-> FALSE]
    /\ focResult = [p \in Callers |-> Pending]
    /\ createPc = "idle"
    /\ createArgs = Null
    /\ createSite = Null
    /\ createdStory = Null
    /\ createResult = Pending
    /\ events = <<>>
    /\ errorLog = <<>>
    /\ scraperQueue = <<>>
    /\ scrapes = {}
    /\ repoCalls = {}

(***************************************************************************)
(* isLiveEnabled (services/stories/index.ts, 479-539).  Dates are instants *)
(* in milliseconds; a property that is undefined is a key the record does  *)
(* not have.                                                               *)
(***************************************************************************)
Has(record, key) == key \in DOMAIN record

NoFields == [k \in {} |-> TRUE]

\* Partial<LiveConfiguration>: enabled may be unset
LiveSettings == {NoFields} \cup {[enabled |-> b] : b \in BOOLEAN}

\* the fields of a story that isLiveEnabled reads
LiveStory(createdAt, lastCommentedAt, settings) ==
    [id |-> "s1", tenantID |-> "tenant", createdAt |-> createdAt,
     settings |-> settings]
    @@ lastCommentedAt

LiveStories ==
    {LiveStory(c, l, s) :
        c \in 0..1,
        l \in {NoFields} \cup {[lastCommentedAt |-> at] : at \in 1..2},
        s \in {NoFields} \cup {[live |-> ls] : ls \in LiveSettings}}

\* the arguments of isLiveEnabled
LiveInputs ==
    {[config |-> [disable_live_updates |-> d,
                  disable_live_updates_timeout |-> timeout],
      tenant |-> [live |-> [enabled |-> e]],
      source |-> src,
      now |-> now] :
        d \in BOOLEAN, timeout \in 0..MaxTimeout, e \in BOOLEAN,
        src \in LiveStories \cup LiveSettings, now \in 0..MaxNow}

\* lines 481-488: all stories have an id and a tenant id
sourceIsStory(source) ==
    /\ Has(source, "id") /\ source.id # ""
    /\ Has(source, "tenantID") /\ source.tenantID # ""

\* a slip that writes settings.enabled || tenant.live.enabled
defaultToOr(record, key, defaultValue) ==
    IF Has(record, key) /\ record[key] THEN record[key] ELSE defaultValue

\* lodash defaultTo(record[key], defaultValue): the default stands in for
\* undefined only
defaultTo(record, key, defaultValue) ==
    IF Has(record, key) THEN record[key] ELSE defaultValue

\* line 538
EnabledOrDefault(settings, defaultValue) ==
    defaultTo(settings, "enabled", defaultValue)

\* line 507: source.lastCommentedAt || source.createdAt
LastActivity(source) ==
    IF Has(source, "lastCommentedAt") THEN source.lastCommentedAt
    ELSE source.createdAt

\* a slip that lets the story live at the very instant of the timeout
DormantAfter(config, source, now) ==
    /\ config.disable_live_updates_timeout > 0
    /\ LastActivity(source) + config.disable_live_updates_timeout < now

\* lines 503-521: the last comment, or the creation of the story, is at
\* least the timeout ago
Dormant(config, source, now) ==
    /\ config.disable_live_updates_timeout > 0
    /\ LastActivity(source) + config.disable_live_updates_timeout <= now

\* a slip that lets an explicit enabled of the source win over the flag
DisabledUnlessEnabled(config, source) ==
    /\ config.disable_live_updates
    /\ ~(Has(source, "enabled") /\ source.enabled)
    /\ ~(/\ Has(source, "settings") /\ Has(source.settings, "live")
          /\ Has(source.settings.live, "enabled")
          /\ source.settings.live.enabled)

\* lines 496-498: config.get("disable_live_updates")
Disabled(config, source) == config.disable_live_updates

isLiveEnabled(config, t, source, now) ==
    IF Disabled(config, source) THEN FALSE
    ELSE IF sourceIsStory(source)
    THEN IF Dormant(config, source, now) THEN FALSE
         ELSE IF ~Has(source.settings, "live") THEN t.live.enabled
         ELSE EnabledOrDefault(source.settings.live, t.live.enabled)
    ELSE EnabledOrDefault(source, t.live.enabled)

\* the call resolves
IsLiveEnabledCall ==
    /\ liveResult.kind = "pending"
    /\ liveInput # Null
    /\ liveResult' = Returned(isLiveEnabled(liveInput.config, liveInput.tenant,
                                            liveInput.source, liveInput.now))
    /\ UNCHANGED <<storeVars, tenant, mergeVars, removeVars, histVars, focVars,
                   createVars, brokerVars, updateVars, liveInput, countArgs,
                   countResult, requestVars>>

(***************************************************************************)
(* The count merge functions as merge applies them (index.ts, 392-403).    *)
(***************************************************************************)
\* count structures of stories: every status and queue key present, the
\* action counts sparse
CountChoices ==
    {[status |-> [createEmptyCommentStatusCounts
                     EXCEPT !.APPROVED = n, !.NONE = m],
      moderationQueue |-> [total |-> m,
                           queues |-> [createEmptyCommentModerationCountsPerQueue
                                          EXCEPT !.unmoderated = m]],
      action |-> [k \in keys |-> n + 1]] :
        n \in 0..MaxCount, m \in 0..MaxCount, keys \in SUBSET ActionKeys}

\* the merge of the three functions over count structures, as lines 392-403
\* apply them to the commentCounts of stories
MergeOf(cs) == CountsOfStories([i \in DOMAIN cs |-> [commentCounts |-> cs[i]]])

\* the merges of a, b and c in every grouping and order
CountsMerge ==
    /\ countArgs # <<>>
    /\ countResult.kind = "pending"
    /\ LET a == countArgs[1]
           b == countArgs[2]
           c == countArgs[3]
       IN countResult' = Returned(
              [abc |-> MergeOf(<<a, b, c>>),
               a_bc |-> MergeOf(<<a, MergeOf(<<b, c>>)>>),
               ab_c |-> MergeOf(<<MergeOf(<<a, b>>), c>>),
               ab |-> MergeOf(<<a, b>>),
               ba |-> MergeOf(<<b, a>>),
               orders |-> {MergeOf(<<a, c, b>>), MergeOf(<<b, a, c>>),
                           MergeOf(<<b, c, a>>), MergeOf(<<c, a, b>>),
                           MergeOf(<<c, b, a>>)}])
    /\ UNCHANGED <<storeVars, tenant, mergeVars, removeVars, histVars, focVars,
                   createVars, brokerVars, updateVars, liveInput, liveResult,
                   countArgs, requestVars>>

(***************************************************************************)
(* tenantMiddleware (src/unnamed/part_000, 12-59): the request handler     *)
(* that attaches the tenant of the request's hostname.                     *)
(***************************************************************************)
\* the argument of next() called without one
NoError == "(none)"

TenantIDs == {"tenantA", "tenantB"}

\* what cache.retrieveByDomain(req.hostname) answers: a tenant, null, or a
\* rejection
Resolutions ==
    {[kind |-> "tenant", tenant |-> id] : id \in TenantIDs}
    \cup {[kind |-> "null"], [kind |-> "throw", error |-> "cache error"]}

\* record with the key set to the value
With(record, key, value) ==
    [k \in DOMAIN record \cup {key} |-> IF k = key THEN value ELSE record[k]]

\* next(err): the call is recorded with the run that made it
CallNext(calls, run, err) == Append(calls, [run |-> run, err |-> err])

\* lines 16-37: req.talk is created when the request has none, and the
\* tenant cache attached when req.talk has none
TenantMiddlewareCall(pass) ==
    /\ mwPc = "idle"
    /\ mwRuns < MaxRuns
    /\ mwRuns' = mwRuns + 1
    /\ passNoTenant' = pass
    /\ clock' = clock + 1
    /\ talkBefore' = reqTalk
    /\ localsBefore' = resLocals
    /\ IF reqTalk = Null
       THEN /\ uuids' = uuids + 1
            /\ resHeaders' = With(resHeaders, "X-Trace-ID", uuids')
            /\ reqTalk' = [id |-> uuids', now |-> clock',
                           cache |-> [tenant |-> "cache"]]
       ELSE /\ reqTalk' = IF Has(reqTalk, "cache") THEN reqTalk
                          ELSE With(reqTalk, "cache", [tenant |-> "cache"])
            /\ UNCHANGED <<uuids, resHeaders>>
    /\ mwPc' = "resolve"
    /\ UNCHANGED <<storeVars, tenant, mergeVars, removeVars, histVars, focVars,
                   createVars, brokerVars, updateVars, valueVars, resLocals,
                   nextCalls, resolved>>

\* a slip that leaves out the return of line 43: next is called again
TenantMiddlewareResolveNoReturn(resolution) ==
    /\ mwPc = "resolve"
    /\ resolved' = resolution
    /\ IF resolution.kind = "throw"
       THEN /\ nextCalls' = CallNext(nextCalls, mwRuns, resolution.error)
            /\ UNCHANGED <<reqTalk, resLocals>>
       ELSE IF resolution.kind = "null"
       THEN /\ nextCalls' =
                  IF passNoTenant
                  THEN CallNext(CallNext(nextCalls, mwRuns, NoError),
                                mwRuns, "TenantNotFoundError")
                  ELSE CallNext(nextCalls, mwRuns, "TenantNotFoundError")
            /\ UNCHANGED <<reqTalk, resLocals>>
       ELSE /\ reqTalk' = With(reqTalk, "tenant", resolution.tenant)
            /\ resLocals' = With(resLocals, "tenant", resolution.tenant)
            /\ nextCalls' = CallNext(nextCalls, mwRuns, NoError)
    /\ mwPc' = "idle"
    /\ UNCHANGED <<storeVars, tenant, mergeVars, removeVars, histVars, focVars,
                   createVars, brokerVars, updateVars, valueVars, resHeaders,
                   passNoTenant, mwRuns, uuids, clock, talkBefore,
                   localsBefore>>

\* lines 39-58: the cache answers; next is called with the error thrown,
\* with TenantNotFoundError or nothing when there is no tenant, and with
\* nothing once the tenant is attached
TenantMiddlewareResolve(resolution) ==
    /\ mwPc = "resolve"
    /\ resolved' = resolution
    /\ IF resolution.kind = "throw"
       THEN /\ nextCalls' = CallNext(nextCalls, mwRuns, resolution.error)
            /\ UNCHANGED <<reqTalk, resLocals>>
       ELSE IF resolution.kind = "null"
       THEN /\ nextCalls' =
                  IF passNoTenant
                  THEN CallNext(nextCalls, mwRuns, NoError)
                  ELSE CallNext(nextCalls, mwRuns, "TenantNotFoundError")
            /\ UNCHANGED <<reqTalk, resLocals>>
       ELSE /\ reqTalk' = With(reqTalk, "tenant", resolution.tenant)
            /\ resLocals' = With(resLocals, "tenant", resolution.tenant)
            /\ nextCalls' = CallNext(nextCalls, mwRuns, NoError)
    /\ mwPc' = "idle"
    /\ UNCHANGED <<storeVars, tenant, mergeVars, removeVars, histVars, focVars,
                   createVars, brokerVars, updateVars, valueVars, resHeaders,
                   passNoTenant, mwRuns, uuids, clock, talkBefore,
                   localsBefore>>

\* no request is being handled
InitRequest ==
    /\ reqTalk = Null
    /\ resLocals = NoFields
    /\ resHeaders = NoFields
    /\ nextCalls = <<>>
    /\ mwPc = "idle"
    /\ passNoTenant = FALSE
    /\ mwRuns = 0
    /\ uuids = 0
    /\ clock = 0
    /\ talkBefore = Null
    /\ localsBefore = NoFields
    /\ resolved = [kind |-> "none"]

\* no pure function has been called
InitValues ==
    /\ liveInput = Null
    /\ liveResult = Pending
    /\ countArgs = <<>>
    /\ countResult = Pending

(***************************************************************************)
(* The store with one merge call and the writers.                          *)
(***************************************************************************)
StoryModes == {NoMode, "COMMENTS", "QA"}

InitStory(s, site, mode) ==
    NewStory(s, [host |-> HostOf(site), path |-> s], site, mode, FALSE, FALSE)

\* the common story: on site A, its mode never set
CommonStory(s) == InitStory(s, "siteA", NoMode)

StoryChoices(s) ==
    {Null} \cup {InitStory(s, site, mode) : site \in Sites, mode \in StoryModes}

Uncommon(st) == {s \in StoryIDs : st[s] # CommonStory(s)}

\* the stories a behaviour starts from.  merge takes any story as its
\* destination and any stories as its sources, so the story that differs is
\* always s3: the common stories with s3 missing, on either site or in any
\* mode; with one of s2, s3 missing and the other on site B; or all three in
\* comments mode
InitStories ==
    {st \in [StoryIDs -> UNION {StoryChoices(s) : s \in StoryIDs}] :
        /\ \A s \in StoryIDs : st[s] \in StoryChoices(s)
        /\ \/ Uncommon(st) \subseteq {"s3"}
           \/ /\ Uncommon(st) = {"s2", "s3"}
              /\ \E a, b \in Uncommon(st) :
                    /\ st[a] = Null
                    /\ st[b] = InitStory(b, "siteB", NoMode)
           \/ \A s \in StoryIDs : st[s] = InitStory(s, "siteA", "COMMENTS")}

\* no merge or remove call has been made and no writer has written
InitIdle ==
    /\ comments = <<>>
    /\ actions = <<>>
    /\ mergePc = "idle"
    /\ destinationID = ""
    /\ sourceIDs = <<>>
    /\ mergeStories = <<>>
    /\ destinationStory = Null
    /\ mergeLog = EmptyLog
    /\ mergeResult = Pending
    /\ removePc = "idle"
    /\ removeID = ""
    /\ includeComments = FALSE
    /\ removeFound = Null
    /\ removeLog = EmptyRemoveLog
    /\ removeResult = Pending
    /\ removeOps = <<>>
    /\ initStories = stories
    /\ written = [s \in StoryIDs |-> createEmptyRelatedCommentCounts]
    /\ commentOrigin = <<>>
    /\ actionOrigin = <<>>
    /\ fetchWritten = Null
    /\ mergeDeleted = {}
    /\ interfered = FALSE
    /\ lateWrite = FALSE

Init ==
    /\ stories \in InitStories
    /\ tenant \in {Tenant(ff, FALSE) : ff \in SUBSET {"DEFAULT_QA_STORY_MODE"}}
    /\ InitIdle
    /\ InitCallers
    /\ InitRequest
    /\ InitValues

Next ==
    \/ \E s \in StoryIDs, status \in WriteStatuses : WriteComment(s, status)
    \/ \E s \in StoryIDs, key \in WriteActionKeys : WriteAction(s, key)
    \/ \E d \in StoryIDs, srcs \in SourceLists : MergeCall(d, srcs)
    \/ MergeRetrieve
    \/ MergeComments
    \/ MergeActions
    \/ MergeCounts
    \/ MergeRemove

Spec == Init /\ [][Next]_vars

(***************************************************************************)
(* The store with one remove call and the writers.                         *)
(***************************************************************************)
NextRemove ==
    \/ \E s \in StoryIDs, status \in WriteStatuses : WriteComment(s, status)
    \/ \E s \in StoryIDs, key \in WriteActionKeys : WriteAction(s, key)
    \/ \E id \in StoryIDs, include \in BOOLEAN : RemoveCall(id, include)
    \/ RemoveRetrieve
    \/ RemoveActions
    \/ RemoveComments
    \/ RemoveStory

SpecRemove == Init /\ [][NextRemove]_vars

(***************************************************************************)
(* The store with one merge call, one remove call and the writers: the     *)
(* remove call deletes a story of the merge while the merge is running.    *)
(***************************************************************************)
\* three stories of one site that may be merged
InitBoth ==
    /\ stories = [s \in StoryIDs |-> CommonStory(s)]
    /\ tenant = Tenant({}, FALSE)
    /\ InitIdle
    /\ InitCallers
    /\ InitRequest
    /\ InitValues

\* the source lists of a merge into s1 that passes the checks
ValidSourceLists ==
    {srcs \in SourceLists :
        /\ Len(srcs) > 0
        /\ "s1" \notin Range(srcs)
        /\ UniqLength(srcs) = Len(srcs)}

NextBoth ==
    \/ \E status \in WriteStatuses : WriteComment("s2", status)
    \/ \E key \in WriteActionKeys : WriteAction("s2", key)
    \/ \E srcs \in ValidSourceLists : MergeCall("s1", srcs)
    \/ MergeRetrieve
    \/ MergeComments
    \/ MergeActions
    \/ MergeCounts
    \/ MergeRemove
    \/ \E id \in StoryIDs, include \in BOOLEAN : RemoveCall(id, include)
    \/ RemoveRetrieve
    \/ RemoveActions
    \/ RemoveComments
    \/ RemoveStory

SpecBoth == InitBoth /\ [][NextBoth]_vars

(***************************************************************************)
(* The store with two findOrCreate calls and one create call.              *)
(***************************************************************************)
\* the store is empty, or holds the story of one registered URL
InitCreateStories ==
    {[s \in StoryIDs |-> Null],
     [s \in StoryIDs |->
         IF s = "s1"
         THEN NewStory("s1", [host |-> "a.example", path |-> "1"], "siteA",
                       NoMode, FALSE, FALSE)
         ELSE Null]}

InitCreate ==
    /\ stories \in InitCreateStories
    /\ tenant \in {Tenant(ff, scraping) :
                      ff \in {{"ENABLE_QA"}, {"ENABLE_RATINGS_AND_REVIEWS"}},
                      scraping \in BOOLEAN}
    /\ InitIdle
    /\ InitCallers
    /\ InitRequest
    /\ InitValues

NextCreate ==
    \/ \E p \in Callers, input \in FindOrCreateInputs : FindOrCreateCall(p, input)
    \/ \E p \in Callers : FindOrCreateUpsert(p)
    \/ \E p \in Callers : FindOrCreateFinish(p)
    \/ \E args \in CreateInputs : CreateCall(args)
    \/ CreateInsert
    \/ CreateScrape
    \/ CreateFinish

SpecCreate == InitCreate /\ [][NextCreate]_vars

(***************************************************************************)
(* The store with the operations that accept a mode: one findOrCreate      *)
(* call, one create call, and updateSettings and updateStoryMode calls.    *)
(***************************************************************************)
\* the modes a story of a tenant with these flags may be in
HeldModes(flags) ==
    {NoMode, "COMMENTS"}
    \cup (IF "ENABLE_QA" \in flags THEN {"QA"} ELSE {})
    \cup (IF "ENABLE_RATINGS_AND_REVIEWS" \in flags
          THEN {"RATINGS_AND_REVIEWS"} ELSE {})

\* a tenant holds a flag, or none; the store holds one story, whose mode, if
\* gated, the tenant holds the flag of
InitMode ==
    /\ tenant \in {Tenant(ff, FALSE) :
                      ff \in {{}, {"ENABLE_QA"}, {"ENABLE_RATINGS_AND_REVIEWS"}}}
    /\ stories \in
          {[s \in StoryIDs |->
               IF s = "s1"
               THEN NewStory("s1", [host |-> "a.example", path |-> "1"],
                             "siteA", m, FALSE, FALSE)
               ELSE Null] :
           m \in HeldModes(tenant.featureFlags)}
    /\ InitIdle
    /\ InitCallers
    /\ InitRequest
    /\ InitValues

ModeCalls == {c \in UpdateCalls({"s1"}) : c.op # "update"}

ModeFindOrCreateInputs ==
    {[id |-> NoID, url |-> [host |-> "b.example", path |-> "1"], mode |-> m] :
        m \in {NoMode} \cup AllModes}

ModeCreateInputs ==
    {[storyID |-> "s3", storyURL |-> [host |-> "a.example", path |-> "c"],
      mode |-> m, metadata |-> TRUE] : m \in {NoMode} \cup AllModes}

NextMode ==
    \/ \E input \in ModeFindOrCreateInputs : FindOrCreateCall("p1", input)
    \/ FindOrCreateUpsert("p1")
    \/ FindOrCreateFinish("p1")
    \/ \E args \in ModeCreateInputs : CreateCall(args)
    \/ CreateInsert
    \/ CreateFinish
    \/ \E call \in ModeCalls : UpdateCall(call)
    \/ UpdateStore

SpecMode == InitMode /\ [][NextMode]_vars

(***************************************************************************)
(* The store with update, updateSettings and updateStoryMode calls.        *)
(***************************************************************************)
NextUpdate ==
    \/ \E call \in UpdateCalls({"s1", "s2"}) : UpdateCall(call)
    \/ UpdateStore

SpecUpdate == InitMode /\ [][NextUpdate]_vars

(***************************************************************************)
(* One call of isLiveEnabled, on every input.                              *)
(***************************************************************************)
InitLive ==
    /\ stories = [s \in StoryIDs |-> Null]
    /\ tenant = Tenant({}, FALSE)
    /\ InitIdle
    /\ InitCallers
    /\ InitRequest
    /\ liveInput \in LiveInputs
    /\ liveResult = Pending
    /\ countArgs = <<>>
    /\ countResult = Pending

NextLive == IsLiveEnabledCall

SpecLive == InitLive /\ [][NextLive]_vars

(***************************************************************************)
(* The count merges of three count structures, on every input.             *)
(***************************************************************************)
InitCounts ==
    /\ stories = [s \in StoryIDs |-> Null]
    /\ tenant = Tenant({}, FALSE)
    /\ InitIdle
    /\ InitCallers
    /\ InitRequest
    /\ liveInput = Null
    /\ liveResult = Pending
    /\ countArgs \in [1..3 -> CountChoices]
    /\ countResult = Pending

NextCounts == CountsMerge

SpecCounts == InitCounts /\ [][NextCounts]_vars

(***************************************************************************)
(* One request through the tenant middleware, run up to MaxRuns times.     *)
(***************************************************************************)
\* the request arrives without req.talk, or with the id and now that a
\* handler before this one has set
InitTenant ==
    /\ stories = [s \in StoryIDs |-> Null]
    /\ tenant = Tenant({}, FALSE)
    /\ InitIdle
    /\ InitCallers
    /\ InitValues
    /\ reqTalk \in {Null, [id |-> 0, now |-> 0],
                     [id |-> 0, now |-> 0, cache |-> [tenant |-> "cache"]]}
    /\ resLocals = NoFields
    /\ resHeaders = NoFields
    /\ nextCalls = <<>>
    /\ mwPc = "idle"
    /\ passNoTenant = FALSE
    /\ mwRuns = 0
    /\ uuids = 0
    /\ clock = 0
    /\ talkBefore = Null
    /\ localsBefore = NoFields
    /\ resolved = [kind |-> "none"]

NextTenant ==
    \/ \E pass \in BOOLEAN : TenantMiddlewareCall(pass)
    \/ \E resolution \in Resolutions : TenantMiddlewareResolve(resolution)

SpecTenant == InitTenant /\ [][NextTenant]_vars

(***************************************************************************)
(* Properties of merge.                                                    *)
(***************************************************************************)
RECURSIVE SumOver(_, _)
SumOver(f, S) ==
    IF S = {} THEN 0
    ELSE LET x == CHOOSE y \in S : TRUE IN f[x] + SumOver(f, S \ {x})

\* the coordinate-wise sum of the counts w[s] of the stories s in S
SumOfCounts(w, S) ==
    [status |-> [k \in StatusKeys |->
                    SumOver([s \in S |-> w[s].status[k]], S)],
     moderationQueue |->
        [total |-> SumOver([s \in S |-> w[s].moderationQueue.total], S),
         queues |-> [q \in QueueKeys |->
                        SumOver([s \in S |-> w[s].moderationQueue.queues[q]], S)]],
     action |-> [k \in UNION {DOMAIN w[s].action : s \in S} |->
                    SumOver([s \in S |-> CountAt(w[s].action, k)], S)]]

MergeDone == mergePc = "done"
MergeSucceeded ==
    MergeDone /\ mergeResult.kind = "return" /\ mergeResult.value # Null
EmptySourcesReported ==
    MergeDone /\ mergeResult = Returned(Null)
        /\ mergeLog.warn = "cannot merge from 0 stories"
\* merge ended on one of its validation checks
ValidationFailed ==
    MergeDone /\ (mergeResult.kind = "throw" \/ EmptySourcesReported)

\* the store holds exactly what it started with and what the writers wrote:
\* no story was updated or deleted, no comment or action reassigned
StoreAsWritten ==
    /\ stories = [s \in StoryIDs |->
                     IF initStories[s] = Null THEN Null
                     ELSE [initStories[s] EXCEPT !.commentCounts = written[s]]]
    /\ comments = commentOrigin
    /\ actions = actionOrigin

\* C1: after a successful merge with no writer since the call, the
\* destination's counts are the coordinate-wise sum of the sources' pre-merge
\* counts alone (its own are discarded), no source record exists, and every
\* comment written to a source has the destination's id.
C1_MergeSumsSources ==
    (MergeSucceeded /\ ~interfered) =>
        /\ stories[destinationID] # Null
        /\ stories[destinationID].commentCounts =
               SumOfCounts(written, Range(sourceIDs))
        /\ \A s \in Range(sourceIDs) : stories[s] = Null
        /\ \A i \in DOMAIN comments :
               commentOrigin[i] \in Range(sourceIDs) => comments[i] = destinationID

\* a destination with a comment of its own took over a source's single comment
C1_Witness ==
    /\ MergeSucceeded /\ ~interfered
    /\ Len(sourceIDs) = 2
    /\ written[destinationID].status.NONE = 1
    /\ \E i \in DOMAIN comments :
           commentOrigin[i] \in Range(sourceIDs) /\ comments[i] = destinationID
    /\ stories[destinationID].commentCounts.status.NONE = 1

\* C2: a merge that fails a validation check has changed nothing: every story
\* record and its counts, and the storyID of every comment and action, are as
\* the writers left them.
C2_FailedMergeMutatesNothing ==
    ValidationFailed => StoreAsWritten

\* a cross-site merge was refused while a source had a comment to reassign
C2_Witness ==
    /\ MergeDone
    /\ mergeResult = Thrown("cannot merge stories on different sites")
    /\ \E i \in DOMAIN comments : comments[i] \in Range(sourceIDs)

HasDuplicateID ==
    \/ \E i \in DOMAIN sourceIDs : sourceIDs[i] = destinationID
    \/ \E i, j \in DOMAIN sourceIDs : i # j /\ sourceIDs[i] = sourceIDs[j]

\* C4: a merge whose id list names an id twice throws the duplicate-id error,
\* and does so before any story is fetched.
C4_DuplicateIDsRejected ==
    (mergePc # "idle" /\ HasDuplicateID) =>
        /\ MergeDone
        /\ mergeResult = Thrown("cannot merge from/to the same story ID")
        /\ mergeStories = <<>>

\* a repeated source was refused although the destination is not a source
C4_Witness ==
    /\ MergeDone
    /\ Len(sourceIDs) = 2 /\ sourceIDs[1] = sourceIDs[2]
    /\ destinationID \notin Range(sourceIDs)
    /\ stories[sourceIDs[1]] # Null

NoOrphans ==
    /\ \A i \in DOMAIN comments : comments[i] \notin mergeDeleted
    /\ \A i \in DOMAIN actions : actions[i] \notin mergeDeleted

\* C5 as claimed: after merge has returned, under any interleaving with the
\* writers, no comment or action names a story record merge deleted.
C5_NoOrphansEver == MergeDone => NoOrphans

\* C5 as the code has it: it holds when no comment was written to a source
\* after merge reassigned the comments and no action after it reassigned the
\* actions.
C5_NoOrphansWithoutLateWrite == (MergeDone /\ ~lateWrite) => NoOrphans

\* a comment and an action written to a source, at least one of them while
\* merge was running, both moved to the destination
C5_Witness ==
    /\ MergeSucceeded /\ interfered /\ ~lateWrite
    /\ Len(comments) = 1 /\ Len(actions) = 1
    /\ commentOrigin[1] \in mergeDeleted /\ comments[1] = destinationID
    /\ actionOrigin[1] \in mergeDeleted /\ actions[1] = destinationID

\* C6 as claimed: the counts merge returns reflect, exactly once, every
\* increment applied to a source before its record was deleted.
C6_NoIncrementLost ==
    MergeSucceeded =>
        mergeResult.value.commentCounts = SumOfCounts(written, Range(sourceIDs))

\* C6 as the code has it: the counts merge writes to the destination and
\* returns reflect, exactly once, the increments applied to the sources before
\* merge read the stories; later ones are not reflected.
C6_IncrementsBeforeReadCounted ==
    MergeSucceeded =>
        mergeResult.value.commentCounts =
            SumOfCounts(fetchWritten, Range(sourceIDs))

\* an increment before the read was counted and one after it was not
C6_Witness ==
    /\ MergeSucceeded
    /\ \E s \in Range(sourceIDs) :
          /\ fetchWritten[s].status.NONE = 1
          /\ written[s].status.NONE = 2
    /\ mergeResult.value.commentCounts.status.NONE = 1

(***************************************************************************)
(* Properties of remove.                                                   *)
(***************************************************************************)
RemoveDone == removePc = "done"

\* the order of the cascade
RemoveOrder == <<"removeStoryActions", "removeStoryComments", "removeStory">>

IsPrefix(s, full) == Len(s) <= Len(full) /\ \A i \in DOMAIN s : s[i] = full[i]

\* C7: remove without includeComments of a story whose status counts sum to
\* more than zero is refused with the has-comments error and leaves the story,
\* its comments and its actions as they were; with all status counts zero the
\* story record is removed.
C7_RemoveRefusedWithComments ==
    (RemoveDone /\ ~includeComments /\ removeFound # Null) =>
        IF calculateTotalCommentCount(removeFound.commentCounts.status) > 0
        THEN /\ removeResult = Thrown("asset has comments, cannot remove")
             /\ removeOps = <<>>
             /\ StoreAsWritten
             /\ stories[removeID] # Null
        ELSE /\ removeResult.kind = "return"
             /\ removeResult.value # Null
             /\ removeResult.value.id = removeID
             /\ removeOps = <<"removeStory">>
             /\ stories[removeID] = Null

\* a story with a comment and an action was refused
C7_Witness ==
    /\ RemoveDone /\ ~includeComments
    /\ removeResult.kind = "throw"
    /\ \E i \in DOMAIN comments : comments[i] = removeID
    /\ \E i \in DOMAIN actions : actions[i] = removeID

RecordsWithURL(url) == {s \in StoryIDs : stories[s] # Null /\ stories[s].url = url}

EventsWithURL(url) == {i \in DOMAIN events : events[i].storyURL = url}

\* the calls of findOrCreate made for this URL that passed the mode check
CallersOf(url) ==
    {p \in Callers : /\ focInput[p] # Null
                     /\ focInput[p].url = url
                     /\ focResult[p].kind # "throw"}

RegisteredURLs == {[host |-> h, path |-> "1"] : h \in {"a.example", "b.example"}}

\* the number of stories this URL's callers had to create: none when the
\* story was there before them
CreatedOf(url) ==
    IF \E s \in StoryIDs : initStories[s] # Null /\ initStories[s].url = url
    THEN 0 ELSE 1

\* C9: findOrCreate calls for the same URL, however they interleave, never
\* leave two records of that URL; once they have all returned there is
\* exactly one record, one call saw wasUpserted if the story was new and none
\* if it was there before, and as many StoryCreated events of the story were
\* published as calls saw wasUpserted.
C9_OneRecordOneEvent ==
    \A url \in RegisteredURLs :
        /\ Cardinality(RecordsWithURL(url)) <= 1
        /\ Cardinality({p \in CallersOf(url) : wasUpserted[p]}) <= CreatedOf(url)
        /\ Cardinality(EventsWithURL(url)) <= CreatedOf(url)
        /\ (CallersOf(url) # {} /\ \A p \in CallersOf(url) : focPc[p] = "done")
              => /\ Cardinality(RecordsWithURL(url)) = 1
                 /\ \A p \in CallersOf(url) :
                       /\ focResult[p].kind = "return"
                       /\ focResult[p].value # Null
                       /\ focResult[p].value.id \in RecordsWithURL(url)
                 /\ Cardinality({p \in CallersOf(url) : wasUpserted[p]})
                       = CreatedOf(url)
                 /\ Cardinality(EventsWithURL(url)) = CreatedOf(url)

\* both calls asked for the same new URL and have returned: one created the
\* story, the other found it, and one event was published
C9_Witness ==
    /\ focPc = [p \in Callers |-> "done"]
    /\ focInput["p1"] # Null /\ focInput["p2"] # Null
    /\ focInput["p1"].url = focInput["p2"].url
    /\ focInput["p1"].url \in RegisteredURLs
    /\ CreatedOf(focInput["p1"].url) = 1
    /\ wasUpserted["p2"] /\ ~wasUpserted["p1"]
    /\ focResult["p1"].kind = "return" /\ focResult["p2"].kind = "return"
    /\ focResult["p1"].value.id = focResult["p2"].value.id
    /\ Len(events) = 1

\* the URL is given and resolves to no registered site
Unregistered(url) == url # EmptyURL /\ findSiteByURL(url) = Null

\* nothing of this URL was stored, published or queued for a scrape
NothingMadeOf(url) ==
    /\ RecordsWithURL(url) = {}
    /\ EventsWithURL(url) = {}
    /\ \A i \in DOMAIN scraperQueue : scraperQueue[i].storyURL # url

\* a findOrCreate call for an unregistered URL has failed without reaching
\* the repository, with the given error
FindOrCreateRejected(p, error) ==
    /\ focPc[p] = "done"
    /\ focResult[p] = Thrown(error)
    /\ p \notin repoCalls
    /\ focStory[p] = Null
    /\ ~wasUpserted[p]
    /\ NothingMadeOf(focInput[p].url)

\* the create call has failed without reaching the repository
CreateRejected ==
    /\ createPc = "done"
    /\ createResult.kind = "throw"
    /\ "create" \notin repoCalls
    /\ createdStory = Null
    /\ scrapes = {}
    /\ createArgs.storyURL # EmptyURL => NothingMadeOf(createArgs.storyURL)
    /\ createArgs.storyID # NoID => stories[createArgs.storyID] = Null

\* the claim as first stated: the error of every such call is
\* StoryURLInvalid
C10_AlwaysStoryURLInvalid ==
    /\ \A p \in Callers :
          (focInput[p] # Null /\ Unregistered(focInput[p].url))
             => FindOrCreateRejected(p, "StoryURLInvalidError")
    /\ (createArgs # Null
           /\ (createArgs.storyURL = EmptyURL \/ Unregistered(createArgs.storyURL)))
          => CreateRejected /\ createResult = Thrown("StoryURLInvalidError")
    /\ (createArgs # Null /\ createArgs.storyID = NoID) => CreateRejected

\* C10: findOrCreate with a URL of no registered site, and create with an
\* empty URL, a URL of no registered site or an empty story id, fail before
\* the repository is touched: no record is created, no event published and
\* no scrape started.  The error is that of the first check that fails: the
\* feature flag of the mode asked for comes first in both, and the story id
\* comes before the URL in create; StoryURLInvalid is the error when those
\* pass.
C10_RejectedBeforeRepository ==
    /\ \A p \in Callers :
          (focInput[p] # Null /\ Unregistered(focInput[p].url))
             => FindOrCreateRejected(p,
                   IF validateStoryModeThrows(tenant, focInput[p].mode)
                   THEN "FeatureFlagRequired" ELSE "StoryURLInvalidError")
    /\ (createArgs # Null
           /\ (\/ createArgs.storyURL = EmptyURL
               \/ Unregistered(createArgs.storyURL)
               \/ createArgs.storyID = NoID))
          => /\ CreateRejected
             /\ createResult =
                   Thrown(IF validateStoryModeThrows(tenant, createArgs.mode)
                          THEN "FeatureFlagRequired"
                          ELSE IF createArgs.storyID = NoID
                          THEN "story id is required"
                          ELSE "StoryURLInvalidError")

\* one findOrCreate call was rejected for its URL while the other created a
\* story, and a create call with an id was rejected for its empty URL
C10_Witness ==
    /\ focInput["p1"] # Null /\ Unregistered(focInput["p1"].url)
    /\ focResult["p1"] = Thrown("StoryURLInvalidError")
    /\ focResult["p2"].kind = "return" /\ wasUpserted["p2"]
    /\ createArgs # Null
    /\ createArgs.storyID # NoID /\ createArgs.storyURL = EmptyURL
    /\ createResult = Thrown("StoryURLInvalidError")
    /\ Len(events) = 1


(***************************************************************************)
(* Properties of the operations that accept a mode, checked under SpecMode *)
(* and SpecUpdate.                                                         *)
(***************************************************************************)
\* the tenant lacks the feature flag that gates the mode
LacksFlagOf(mode) ==
    \/ mode = "QA" /\ "ENABLE_QA" \notin tenant.featureFlags
    \/ mode = "RATINGS_AND_REVIEWS"
          /\ "ENABLE_RATINGS_AND_REVIEWS" \notin tenant.featureFlags

FlagError == Thrown("FeatureFlagRequired")

\* the last update call was rejected with this error and left its story as
\* it was
UpdateRejected(error) ==
    /\ updPc = "idle"
    /\ updResult = Thrown(error)
    /\ stories[updCall.storyID] = updBefore[updCall.storyID]

\* C11: findOrCreate, create, updateSettings and updateStoryMode called with
\* a gated mode whose flag the tenant lacks fail with FeatureFlagRequired
\* before they call the repository; so every story in a gated mode belongs
\* to a tenant holding the flag; comments mode is never rejected.
C11_GatedModeNeedsFlag ==
    /\ \A s \in StoryIDs :
          stories[s] # Null => ~LacksFlagOf(stories[s].settings.mode)
    /\ focInput["p1"] # Null =>
          /\ LacksFlagOf(focInput["p1"].mode) =>
                focResult["p1"] = FlagError /\ "p1" \notin repoCalls
          /\ focInput["p1"].mode = "COMMENTS" => focResult["p1"] # FlagError
    /\ createArgs # Null =>
          /\ LacksFlagOf(createArgs.mode) =>
                createResult = FlagError /\ "create" \notin repoCalls
          /\ createArgs.mode = "COMMENTS" => createResult # FlagError
    /\ updCall # Null =>
          /\ LacksFlagOf(updCall.mode) => UpdateRejected("FeatureFlagRequired")
          /\ updCall.mode = "COMMENTS" => updResult # FlagError

\* on a tenant holding ENABLE_QA only: create stored a QA story, findOrCreate
\* a comments story, a first update call set the mode of s1 and a second,
\* asking for ratings and reviews, was rejected
C11_Witness ==
    /\ tenant.featureFlags = {"ENABLE_QA"}
    /\ createResult.kind = "return" /\ createResult.value.settings.mode = "QA"
    /\ focResult["p1"].kind = "return"
    /\ focResult["p1"].value.settings.mode = "COMMENTS"
    /\ updates = 2
    /\ updCall.op = "updateStoryMode"
    /\ updCall.mode = "RATINGS_AND_REVIEWS"
    /\ updResult = FlagError
    /\ stories["s1"].settings.mode = "QA"
    /\ initStories["s1"].settings.mode = NoMode


\* C12: update, updateSettings and updateStoryMode each reject an input URL
\* that resolves to no registered site and an input mode whose feature flag
\* the tenant lacks, before they call the repository, and leave the story
\* unchanged.
C12_BothValidations ==
    updCall # Null =>
        /\ Unregistered(updCall.url) =>
              /\ updPc = "idle"
              /\ updResult.kind = "throw"
              /\ stories[updCall.storyID] = updBefore[updCall.storyID]
        /\ LacksFlagOf(updCall.mode) =>
              /\ updPc = "idle"
              /\ updResult.kind = "throw"
              /\ stories[updCall.storyID] = updBefore[updCall.storyID]


(***************************************************************************)
(* Properties of isLiveEnabled, checked under SpecLive.                    *)
(***************************************************************************)
LiveResolved == liveResult.kind = "return"

\* the source is a full story, with an id and a tenant id
LiveSourceIsStory == Has(liveInput.source, "id")

\* the story's last activity: lastCommentedAt when set, createdAt otherwise
LiveLastActivity ==
    IF Has(liveInput.source, "lastCommentedAt")
    THEN liveInput.source.lastCommentedAt
    ELSE liveInput.source.createdAt

\* a positive timeout is configured, the source is a story and
\* now >= lastActivity + timeout
LiveDormant ==
    /\ LiveSourceIsStory
    /\ liveInput.config.disable_live_updates_timeout > 0
    /\ liveInput.now
          >= LiveLastActivity + liveInput.config.disable_live_updates_timeout

\* the live settings the source carries: the story's settings.live, or the
\* bare settings themselves
LiveSettingsGiven ==
    IF LiveSourceIsStory
    THEN IF Has(liveInput.source.settings, "live")
         THEN liveInput.source.settings.live ELSE NoFields
    ELSE liveInput.source

\* C13: isLiveEnabled returns false whenever disable_live_updates is set,
\* whatever the source, its enabled value, the tenant's live.enabled and now.
C13_GlobalDisableWins ==
    (LiveResolved /\ liveInput.config.disable_live_updates)
        => liveResult.value = FALSE

\* the flag is set against a story that enabled live updates itself, on a
\* tenant that enabled them, well before any timeout
C13_Witness ==
    /\ LiveResolved
    /\ liveInput.config.disable_live_updates
    /\ LiveSourceIsStory /\ ~LiveDormant
    /\ LiveSettingsGiven = [enabled |-> TRUE]
    /\ liveInput.tenant.live.enabled
    /\ liveResult.value = FALSE

C20_ExplicitElseTenant ==
    (LiveResolved /\ ~liveInput.config.disable_live_updates /\ ~LiveDormant)
        => liveResult.value =
              IF Has(LiveSettingsGiven, "enabled")
              THEN LiveSettingsGiven.enabled
              ELSE liveInput.tenant.live.enabled

\* bare settings with enabled false on a tenant that enables live updates,
\* at an instant later than any timeout: the result is false
C20_Witness ==
    /\ LiveResolved
    /\ ~liveInput.config.disable_live_updates
    /\ ~LiveSourceIsStory
    /\ liveInput.config.disable_live_updates_timeout > 0
    /\ liveInput.now >= liveInput.config.disable_live_updates_timeout + 1
    /\ liveInput.source = [enabled |-> FALSE]
    /\ liveInput.tenant.live.enabled
    /\ liveResult.value = FALSE


(***************************************************************************)
(* Properties of the count merges, checked under SpecCounts.               *)
(***************************************************************************)
\* the coordinate-wise sum of a, b and c, a missing key counting as zero
SumOfThree(a, b, c) ==
    [status |-> [k \in StatusKeys |->
                    a.status[k] + b.status[k] + c.status[k]],
     moderationQueue |->
        [total |-> a.moderationQueue.total + b.moderationQueue.total
                     + c.moderationQueue.total,
         queues |-> [q \in QueueKeys |->
                        a.moderationQueue.queues[q] + b.moderationQueue.queues[q]
                          + c.moderationQueue.queues[q]]],
     action |-> [k \in DOMAIN a.action \cup DOMAIN b.action \cup DOMAIN c.action |->
                    (IF k \in DOMAIN a.action THEN a.action[k] ELSE 0)
                    + (IF k \in DOMAIN b.action THEN b.action[k] ELSE 0)
                    + (IF k \in DOMAIN c.action THEN c.action[k] ELSE 0)]]

\* C15: the count merges are associative and commutative, keys missing from
\* an input counting as zero: merge(a, merge(b,c)) = merge(merge(a,b), c)
\* = merge(a,b,c), the coordinate-wise sum, merge(a,b) = merge(b,a), and
\* the merge of the sources in any order is the same.
C15_MergeAssociativeCommutative ==
    countResult.kind = "return" =>
        /\ countResult.value.abc
              = SumOfThree(countArgs[1], countArgs[2], countArgs[3])
        /\ countResult.value.a_bc = countResult.value.abc
        /\ countResult.value.ab_c = countResult.value.abc
        /\ countResult.value.ab = countResult.value.ba
        /\ countResult.value.orders = {countResult.value.abc}

\* three different count structures with different action keys, one of them
\* without any, have been merged
C15_Witness ==
    /\ countResult.kind = "return"
    /\ DOMAIN countArgs[1].action = {"REACTION"}
    /\ DOMAIN countArgs[2].action = {"FLAG"}
    /\ DOMAIN countArgs[3].action = {}
    /\ countArgs[1].status.APPROVED # countArgs[2].status.APPROVED
    /\ countArgs[3].status.NONE > 0
    /\ DOMAIN countResult.value.abc.action = {"REACTION", "FLAG"}


(***************************************************************************)
(* Publication of the StoryCreated event, checked under SpecCreate.        *)
(***************************************************************************)
\* the call returned this story and its record is in the store
ReturnedStored(result, story) ==
    /\ result = Returned(story)
    /\ story # Null
    /\ stories[story.id] # Null
    /\ stories[story.id].url = story.url

\* C16: whether the publish of StoryCreated is delivered or rejected, a
\* findOrCreate call that created the story and a create call that stored
\* one return the story, the record stays in the store and no error reaches
\* the caller; a rejected publish is only logged.
C16_PublishFailureNotPropagated ==
    /\ \A p \in Callers :
          (focPc[p] = "done" /\ wasUpserted[p])
             => ReturnedStored(focResult[p], focStory[p])
    /\ (createPc = "done" /\ "create" \in repoCalls)
          => ReturnedStored(createResult, createdStory)
    /\ Len(errorLog) <= Len(events)

\* a findOrCreate call created a story, the create call stored another, and
\* both publishes were rejected and logged
C16_Witness ==
    /\ focPc["p1"] = "done" /\ wasUpserted["p1"]
    /\ focResult["p1"].kind = "return"
    /\ createPc = "done" /\ createResult.kind = "return"
    /\ Len(events) = 2
    /\ Len(errorLog) = 2


(***************************************************************************)
(* The order of merge's checks, checked under Spec.                        *)
(***************************************************************************)
MergeIDs == <<destinationID>> \o sourceIDs

\* the stories the request names, as the behaviour started with them; the
\* writers change their counts only
Requested == {initStories[MergeIDs[i]] : i \in DOMAIN MergeIDs}

EmptyList == Len(sourceIDs) = 0
Duplicated == Cardinality(Range(MergeIDs)) < Len(MergeIDs)
SomeMissing == Null \in Requested
SitesDiffer == Cardinality({s.siteID : s \in Requested \ {Null}}) > 1
SomeNotComments ==
    \E s \in Requested \ {Null} :
        ~(\/ s.settings.mode = "COMMENTS"
          \/ /\ s.settings.mode = NoMode
             /\ "DEFAULT_QA_STORY_MODE" \notin tenant.featureFlags)

\* the error of the first check the request fails, in the order empty list,
\* duplicate ids, missing stories, different sites, mode; "" when none
FirstFailure ==
    IF EmptyList THEN "cannot merge from 0 stories"
    ELSE IF Duplicated THEN "cannot merge from/to the same story ID"
    ELSE IF SomeMissing THEN "cannot find all the stories"
    ELSE IF SitesDiffer THEN "cannot merge stories on different sites"
    ELSE IF SomeNotComments THEN "cannot merge stories not in comments mode"
    ELSE ""

DestinationVanished ==
    /\ MergeDone
    /\ mergeLog.warn
          = "destination story cannot be updated with new comment counts"

\* C18: merge deletes source records only after updateStoryCounts has
\* answered with the updated destination; when the destination was deleted
\* under it, merge ends with the warning and null, and deletes no source,
\* though it has reassigned the comments and actions of the sources.
C18_SourcesKeptWhenDestinationGone ==
    /\ mergeDeleted # {} =>
          /\ destinationStory # Null
          /\ destinationStory.commentCounts = MergedCounts(mergeStories)
    /\ mergePc \in {"retrieve", "comments", "actions", "counts", "remove"}
          => \A s \in Range(sourceIDs) : stories[s] # Null \/ removeID = s
    /\ DestinationVanished =>
          /\ mergeResult = Returned(Null)
          /\ mergeDeleted = {}
          /\ mergeLog.deletedStories = -1
          /\ \A s \in Range(sourceIDs) : stories[s] # Null
          /\ mergeLog.updatedComments >= 0
          /\ mergeLog.updatedActions >= 0

\* the destination was removed after the comment of a source had been
\* moved to it: merge gave up, the source is still there
C18_Witness ==
    /\ DestinationVanished
    /\ stories[destinationID] = Null
    /\ mergeLog.updatedComments = 1
    /\ \E i \in DOMAIN comments :
          /\ commentOrigin[i] \in Range(sourceIDs)
          /\ comments[i] \in {destinationID, Removed}
    /\ \A s \in Range(sourceIDs) : stories[s] # Null

\* merge has returned having deleted fewer source records than it was asked
PartialMerge ==
    /\ MergeSucceeded
    /\ Cardinality(mergeDeleted) < Len(sourceIDs)

\* the claim as first stated: the value returned from a partial merge is
\* not that of a complete one, the destination story
C19_PartialMergeVisible ==
    PartialMerge => mergeResult # Returned(destinationStory)

\* C19: merge returns the destination story as updateStoryCounts answered
\* it, whether or not every source record was deleted; the number deleted
\* is logged only.
C19_PartialMergeOnlyLogged ==
    (MergeDone /\ mergeLog.deletedStories >= 0) =>
        /\ mergeResult = Returned(destinationStory)
        /\ destinationStory # Null
        /\ mergeLog.deletedStories = Cardinality(mergeDeleted)

\* a source was removed under the merge: one record deleted of two asked
C19_Witness ==
    /\ PartialMerge
    /\ Len(sourceIDs) = 2
    /\ mergeLog.deletedStories = 1
    /\ removeID \in Range(sourceIDs)
    /\ removeResult.kind = "return" /\ removeResult.value # Null

(***************************************************************************)
(* C21: tenantMiddleware calls next once per request and keeps id and now  *)
(***************************************************************************)
\* the calls of next made by a run
CallsOf(run) == {i \in 1..Len(nextCalls) : nextCalls[i].run = run}

\* a run of the middleware has ended and none is in progress
RunEnded == mwPc = "idle" /\ mwRuns > 0

\* the argument of the last call of next
LastError == nextCalls[Len(nextCalls)].err

\* the tenant under the key of a record, Null when the key is missing
TenantOf(record) == IF Has(record, "tenant") THEN record.tenant ELSE Null

\* the run has attached no tenant: req.talk and res.locals hold the tenant
\* they held when it began, or none
NoTenantAttached ==
    /\ talkBefore # Null => TenantOf(reqTalk) = TenantOf(talkBefore)
    /\ talkBefore = Null => ~Has(reqTalk, "tenant")
    /\ TenantOf(resLocals) = TenantOf(localsBefore)

====
